---- MODULE Spec2Model ----
(***************************************************************************)
(* A model of the language-server session driver of superdb-mcp            *)
(* (src/src/lib/lsp-client.ts): one call of LSPClient.executeSession, the  *)
(* child process it spawns, and the events Node delivers to its handlers.  *)
(*                                                                         *)
(* Text is modelled as a sequence of units.  On the child's stdout a unit  *)
(* is a header "Content-Length: n\r\n\r\n" (one unit), or one unit of body *)
(* text; the text of a JSON object takes two units, the text "null" one.   *)
(* Error messages and result payloads are sequences of strings whose       *)
(* concatenation is the text.                                              *)
(*                                                                         *)
(* Four more specifications take parts of the program on their own:       *)
(* FramerSpec (formatMessage, the UTF-8 pipe, parseMessages), AdapterSpec  *)
(* (getCompletions, getHover and the tools of src/src/tools/lsp.ts on a    *)
(* settled session), AvailSpec (checkLspAvailability, getLspClient, the    *)
(* status tools) and ConcurrentSpec (two overlapping executeSession calls  *)
(* on the one client).                                                     *)
(***************************************************************************)
EXTENDS Integers, Sequences, FiniteSets, TLC

\* Bounds of the model.
MaxWire == 6   \* units the child writes on its stdout in one session
MaxErr == 1    \* chunks the child writes on its stderr in one session

\* Program constants.
DefaultTimeout == 5000
finalRequestId == 3

VARIABLES
    pc,            \* "idle" before the call, "running" once the executor has run
    args,          \* the arguments of the call: query, requestMethod, requestParams
    proc,          \* the child: "none", "running", "exited", "failed" (never started)
    exitCode,      \* the code the 'close' event carries
    wire,          \* everything the child has written on its stdout
    stdout,        \* the driver's accumulated decode buffer (a prefix of wire)
    stderr,        \* the driver's accumulated diagnostic text
    stdin,         \* the strings written to the child's stdin, in order
    messageId,     \* the id counter of the session
    resolved,      \* the driver's resolved flag
    timeoutId,     \* the deadline timer: "none", "armed", "fired", "cleared"
    outcome,       \* the promise handed to the caller
    settledBy,     \* which handler settled the promise (history)
    killed,        \* a termination signal has been sent to the child
    errorPending,  \* a process 'error' event is queued for the next tick
    closed,        \* the 'close' event has been delivered
    hostUp         \* the host process is alive (no uncaught exception ended it)

\* The framer on its own: messages encoded by formatMessage, sent as UTF-8
\* bytes, received in chunks and decoded by parseMessages.
VARIABLES
    fSent,         \* the messages encoded so far
    fStream,       \* the bytes of their frames, in order
    fFed,          \* how many of these bytes have arrived
    fBuffer,       \* the accumulated decode buffer (a string)
    fMessages      \* what the last decode call returned

\* A capability adapter and the tool above it, on one finished session.
VARIABLES
    aCall,         \* "none", "getCompletions" or "getHover"
    aSession,      \* how the session of the call ended (the settled promise)
    aReturn,       \* what the adapter handed to its caller
    aTool          \* what the tool (superComplete, superDocs) returned

\* The availability probe and the process-wide cache.
VARIABLES
    envPath,       \* process.env.SUPERDB_LSP_PATH ("" when unset or empty)
    exe,           \* how the configured executable behaves when run
    probes,        \* how many probe processes have been spawned
    availability,  \* what the last checkLspAvailability call returned
    lspClient,     \* the cached client handle
    lspCheckDone,  \* the check-done flag of the cache
    lspAvailable,  \* the cached availability
    constructions, \* how many LSPClient objects have been constructed
    sessions,      \* how many protocol sessions the tools have started
    returned       \* what the last call (of a tool or of getLspClient) returned

\* Several calls of executeSession on one client, running concurrently.
VARIABLES
    closures,      \* per call: the variables declared in its executor
    children,      \* per call: its child process and what it has written
    host           \* "up", or "down" after an uncaught exception

sessionVars == <<pc, args, proc, exitCode, wire, stdout, stderr, stdin,
                 messageId, resolved, timeoutId, outcome, settledBy, killed,
                 errorPending, closed, hostUp>>
framerVars == <<fSent, fStream, fFed, fBuffer, fMessages>>
adapterVars == <<aCall, aSession, aReturn, aTool>>
cacheVars == <<lspClient, lspCheckDone, lspAvailable, constructions>>
availVars == <<envPath, exe, probes, availability, cacheVars, sessions,
               returned>>
concVars == <<closures, children, host>>
vars == <<sessionVars, framerVars, adapterVars, availVars, concVars>>

----------------------------------------------------------------------------
\* Inputs of a call.

Queries == {"from t"}
RequestMethods == {"textDocument/completion", "textDocument/hover"}
lspPath == "/opt/superdb-lsp"
SpawnErrnos == {"ENOENT", "EACCES"}
ExitCodes == {"0", "1", "null"}
StderrChunks == {"panic: boom"}
Positions == {<<"line", "0", "character", "4">>}
uri == "file:///virtual/query.spq"
NoArgs == [query |-> "", requestMethod |-> "", requestParams |-> <<>>]

----------------------------------------------------------------------------
\* Protocol messages (interface LSPMessage).

NoError == [k |-> "absent", message |-> <<>>]
NullError == [k |-> "null", message |-> <<>>]
ErrorObject(text) == [k |-> "object", message |-> text]

\* id 0 stands for "no id", method "" for "no method".
Message(id, method, result, error) ==
    [json |-> "object", id |-> id, method |-> method, result |-> result,
     error |-> error]

\* What JSON.parse returns for the text "null".
JsonNull == [json |-> "null", id |-> 0, method |-> "", result |-> <<>>,
             error |-> NoError]

\* The driver's own failure texts.
TimeoutError(timeout) ==
    <<"LSP request timed out after ", ToString(timeout), "ms">>
ProcessError(errMessage) == <<"LSP process error: ">> \o errMessage
ExitError(code, stderrText) ==
    <<"LSP process exited with code ", code, " before responding: ">>
        \o stderrText
SpawnErrorMessage(errno) == <<"spawn ", lspPath, " ", errno>>

\* The promise: pending, or settled once.
Pending == [kind |-> "pending", value |-> <<>>]
Resolved(v) == [kind |-> "resolved", value |-> v]
Rejected(text) == [kind |-> "rejected", value |-> text]

\* resolve()/reject() of a promise: only the first call settles it.
SettleAlways(p, o) == o
Settle(p, o) == IF p.kind = "pending" THEN o ELSE p

----------------------------------------------------------------------------
\* The wire format.

Header(n) == [t |-> "H", n |-> n, m |-> JsonNull]
ObjOpen(m) == [t |-> "{", n |-> 0, m |-> m]
ObjClose == [t |-> "}", n |-> 0, m |-> JsonNull]
NullText == <<[t |-> "null", n |-> 0, m |-> JsonNull]>>
Garbage == [t |-> "x", n |-> 0, m |-> JsonNull]

\* A JavaScript string is a sequence of UTF-16 code units.  The text of a
\* query is given per code unit; all other text of a message is ASCII and
\* is carried by the opening unit.
Char(c) == [t |-> c, n |-> 0, m |-> JsonNull]
Replacement == Char("U+FFFD")
StructuralUnits == {"H", "{", "}", "null", "x"}
IsChar(unit) == unit.t \notin StructuralUnits
Texts == {"", "from t", "a", "<U+00E9>", "a<U+00E9>b"}
CodeUnits(text) ==
    CASE text = "" -> <<>>
      [] text = "from t" ->
            <<Char("f"), Char("r"), Char("o"), Char("m"), Char(" "), Char("t")>>
      [] text = "a" -> <<Char("a")>>
      [] text = "<U+00E9>" -> <<Char("U+00E9")>>
      [] text = "a<U+00E9>b" -> <<Char("a"), Char("U+00E9"), Char("b")>>
\* The string made of the given code units.
StringOf(units) ==
    IF \E text \in Texts : CodeUnits(text) = units
    THEN CHOOSE text \in Texts : CodeUnits(text) = units
    ELSE "<other text>"

\* The message objects that carry a query text (didOpen), the object without
\* it, and the object with a given text.
HasText(m) ==
    /\ "params" \in DOMAIN m
    /\ m.method = "textDocument/didOpen"
TextOf(m) == IF HasText(m) THEN CodeUnits(m.params[8]) ELSE <<>>
WithText(m, units) ==
    IF HasText(m)
    THEN [m EXCEPT !.params = [@ EXCEPT ![8] = StringOf(units)]]
    ELSE m

\* JSON.stringify of a message object: non-ASCII characters are written raw.
Stringify(m) == <<ObjOpen(WithText(m, <<>>))>> \o TextOf(m) \o <<ObjClose>>

\* JSON.parse: the value, or a failure (the SyntaxError parseMessages catches).
JSONparse(body) ==
    IF /\ Len(body) >= 2
       /\ body[1].t = "{"
       /\ body[Len(body)].t = "}"
       /\ \A i \in 2..(Len(body) - 1) : IsChar(body[i])
       /\ Len(body) > 2 => HasText(body[1].m)
    THEN [ok |-> TRUE,
          value |-> WithText(body[1].m, SubSeq(body, 2, Len(body) - 1))]
    ELSE IF body = NullText
    THEN [ok |-> TRUE, value |-> JsonNull]
    ELSE [ok |-> FALSE, value |-> JsonNull]

\* formatMessage: the jsonrpc tag is added, the header announces content.length.
formatMessageCountsHeader(message) ==
    LET content == Stringify([jsonrpc |-> "2.0"] @@ message)
    IN  <<Header(Len(content) + 1)>> \o content
formatMessage(message) ==
    LET content == Stringify([jsonrpc |-> "2.0"] @@ message)
    IN  <<Header(Len(content))>> \o content

\* parseMessages: the decodable bodies of the complete frames at the front.
RECURSIVE parseMessagesResync(_)
parseMessagesResync(buffer) ==
    IF Len(buffer) = 0 THEN <<>>
    ELSE IF buffer[1].t # "H" THEN parseMessagesResync(Tail(buffer))
    ELSE IF Len(buffer) < 1 + buffer[1].n THEN <<>>
    ELSE LET parsed == JSONparse(SubSeq(buffer, 2, 1 + buffer[1].n))
         IN  (IF parsed.ok THEN <<parsed.value>> ELSE <<>>)
                 \o parseMessagesResync(SubSeq(buffer, 2 + buffer[1].n,
                                               Len(buffer)))
RECURSIVE parseMessages(_)
parseMessages(buffer) ==
    IF Len(buffer) = 0 THEN <<>>
    ELSE IF buffer[1].t # "H" THEN <<>>
    ELSE LET contentLength == buffer[1].n
             headerLength == 1
         IN  IF Len(buffer) < headerLength + contentLength THEN <<>>
             ELSE LET body == SubSeq(buffer, headerLength + 1,
                                     headerLength + contentLength)
                      rest == SubSeq(buffer, headerLength + contentLength + 1,
                                     Len(buffer))
                      parsed == JSONparse(body)
                  IN  (IF parsed.ok THEN <<parsed.value>> ELSE <<>>)
                          \o parseMessages(rest)

----------------------------------------------------------------------------
\* What the child can write on its stdout.

ServerTexts == {<<"method not found">>, TimeoutError(DefaultTimeout)}
Results == {<<"R1">>, <<"R2">>}

InitializeResponse == Message(1, "", <<"capabilities">>, NoError)
InitializeFailure == Message(1, "", <<>>, ErrorObject(<<"not initialized">>))
Notification == Message(0, "textDocument/publishDiagnostics", <<>>, NoError)
FinalResult(r) == Message(finalRequestId, "", r, NoError)
FinalNullError(r) == Message(finalRequestId, "", r, NullError)
FinalError(text) == Message(finalRequestId, "", <<>>, ErrorObject(text))
\* A request of the server to the client that uses the reserved id.
ServerRequest ==
    Message(finalRequestId, "workspace/configuration", <<>>, NoError)

ServerMessages ==
    {InitializeResponse, InitializeFailure, Notification,
     FinalNullError(<<"R1">>), ServerRequest}
        \cup {FinalResult(r) : r \in Results}
        \cup {FinalError(text) : text \in ServerTexts}

Frame(body) == <<Header(Len(body))>> \o body

ServerWrites ==
    {Frame(Stringify(m)) : m \in ServerMessages}
        \cup {Frame(NullText),                      \* the body "null"
              Frame(<<Garbage>>),                   \* a body that is not JSON
              <<Header(3)>> \o Stringify(InitializeResponse), \* announces too much
              <<Garbage>>}                          \* bytes that are no header

----------------------------------------------------------------------------
\* The session before the call.
SessionIdle ==
    /\ pc = "idle"
    /\ args = NoArgs
    /\ proc = "none"
    /\ exitCode = ""
    /\ wire = <<>>
    /\ stdout = <<>>
    /\ stderr = <<>>
    /\ stdin = <<>>
    /\ messageId = 0
    /\ resolved = FALSE
    /\ timeoutId = "none"
    /\ outcome = Pending
    /\ settledBy = "none"
    /\ killed = FALSE
    /\ errorPending = FALSE
    /\ closed = FALSE
    /\ hostUp = TRUE

\* The framer with nothing encoded.
FramerIdle ==
    /\ fSent = <<>>
    /\ fStream = <<>>
    /\ fFed = 0
    /\ fBuffer = <<>>
    /\ fMessages = <<>>

\* No adapter call.
AdapterIdle ==
    /\ aCall = "none"
    /\ aSession = Pending
    /\ aReturn = [kind |-> "none"]
    /\ aTool = [kind |-> "none"]

\* string | null for a path: the null of getLspPath.
NullPath == "<null>"

\* LSPClient | null: no client, and the client the constructor builds.
NoClient == [constructed |-> FALSE, lspPath |-> NullPath, timeout |-> 0]
LSPClient(path, timeout) ==
    [constructed |-> TRUE, lspPath |-> path,
     timeout |-> IF timeout # 0 THEN timeout ELSE DefaultTimeout]

\* The module state of lsp-client.ts at load time, with no path configured.
AvailIdle ==
    /\ envPath = ""
    /\ exe = "missing"
    /\ probes = 0
    /\ availability = [kind |-> "none"]
    /\ lspClient = NoClient
    /\ lspCheckDone = FALSE
    /\ lspAvailable = FALSE
    /\ constructions = 0
    /\ sessions = 0
    /\ returned = [call |-> "none"]

\* No call made yet on the client.
Calls == {"A", "B"}   \* two calls of executeSession that overlap in time
IdleClosure ==
    [pc |-> "idle", requestMethod |-> "", stdin |-> <<>>, stdout |-> <<>>,
     resolved |-> FALSE, messageId |-> 0, timeoutId |-> "none",
     outcome |-> Pending]
NoChild ==
    [proc |-> "none", exitCode |-> "", wire |-> <<>>, fed |-> 0,
     killed |-> FALSE, errorPending |-> FALSE, closed |-> FALSE]
ConcurrentIdle ==
    /\ closures = [c \in Calls |-> IdleClosure]
    /\ children = [c \in Calls |-> NoChild]
    /\ host = "up"

Init == SessionIdle /\ FramerIdle /\ AdapterIdle /\ AvailIdle /\ ConcurrentIdle

----------------------------------------------------------------------------
\* The four writes of executeSession, in program order.  Each element is the
\* string handed to proc.stdin.write; the second component of the result is
\* the id counter after the writes.

\* A message of the driver; id 0 stands for "no id".
ClientMessage(id, method, params) ==
    [id |-> id, method |-> method, params |-> params]

InitializeParams ==
    <<"processId", "pid", "capabilities", "{}", "rootUri", "null">>
DidOpenParams(query) ==
    <<"uri", uri, "languageId", "spq", "version", "1", "text", query>>

SessionWritesRequestFirst(query, requestMethod, requestParams) ==
    << formatMessage(ClientMessage(finalRequestId, requestMethod, requestParams)),
       formatMessage(ClientMessage(1, "initialize", InitializeParams)),
       formatMessage(ClientMessage(0, "initialized", <<>>)),
       formatMessage(ClientMessage(0, "textDocument/didOpen",
                                   DidOpenParams(query))) >>
SessionWrites(query, requestMethod, requestParams) ==
    LET id1 == 0 + 1              \* messageId++
        id4 == finalRequestId     \* messageId = finalRequestId
    IN  << formatMessage(ClientMessage(id1, "initialize", InitializeParams)),
           formatMessage(ClientMessage(0, "initialized", <<>>)),
           formatMessage(ClientMessage(0, "textDocument/didOpen",
                                       DidOpenParams(query))),
           formatMessage(ClientMessage(id4, requestMethod, requestParams)) >>

----------------------------------------------------------------------------
\* proc.kill(): a signal is sent when the child is running.
Kill == killed' = (killed \/ proc = "running")

\* clearTimeout(timeoutId): disarms a timer that has not fired.
ClearTimeout == timeoutId' = IF timeoutId = "armed" THEN "cleared" ELSE timeoutId

\* The executor of the promise: spawn, arm the timer, register the handlers,
\* write the four messages.  It runs to completion before any event.  A spawn
\* that fails (ENOENT, EACCES) leaves no child and queues an 'error' event
\* for the next tick, followed by 'close' with the negative errno.
executeSession(query, requestMethod, requestParams) ==
    /\ pc = "idle"
    /\ UNCHANGED <<framerVars, adapterVars, availVars, concVars>>
    /\ pc' = "running"
    /\ args' = [query |-> query, requestMethod |-> requestMethod,
                requestParams |-> requestParams]
    /\ \E spawn \in {"ok"} \cup SpawnErrnos :
          /\ proc' = IF spawn = "ok" THEN "running" ELSE "failed"
          /\ errorPending' = (spawn # "ok")
          /\ exitCode' = IF spawn = "ok" THEN "" ELSE spawn
    /\ timeoutId' = "armed"
    /\ stdin' = SessionWrites(query, requestMethod, requestParams)
    /\ messageId' = finalRequestId
    /\ UNCHANGED <<wire, stdout, stderr, resolved, outcome, settledBy, killed,
                   closed, hostUp>>

\* The deadline timer's callback.  Timers run after the next-tick queue, so
\* after a queued 'error' event.
TimeoutHandlerNoKill ==
    /\ resolved' = TRUE
    /\ UNCHANGED killed
    /\ outcome' = Settle(outcome, Rejected(TimeoutError(DefaultTimeout)))
    /\ settledBy' = IF outcome.kind = "pending" THEN "timeout" ELSE settledBy
TimeoutHandlerNoReject ==
    /\ resolved' = TRUE
    /\ Kill
    /\ UNCHANGED <<outcome, settledBy>>
TimeoutHandler ==
    /\ resolved' = TRUE
    /\ Kill
    /\ outcome' = Settle(outcome, Rejected(TimeoutError(DefaultTimeout)))
    /\ settledBy' = IF outcome.kind = "pending" THEN "timeout" ELSE settledBy

TimerFires ==
    /\ pc = "running" /\ hostUp /\ ~errorPending
    /\ UNCHANGED <<framerVars, adapterVars, availVars, concVars>>
    /\ timeoutId = "armed"
    /\ timeoutId' = "fired"
    /\ IF ~resolved
       THEN TimeoutHandler
       ELSE UNCHANGED <<resolved, killed, outcome, settledBy>>
    /\ UNCHANGED <<pc, args, proc, exitCode, wire, stdout, stderr, stdin,
                   messageId, errorPending, closed, hostUp>>

\* The loop of the stdout handler over the decoded messages: the first
\* message that is null makes `msg.id` throw a TypeError; the first message
\* whose id is the reserved id is the match.
RECURSIVE ScanAnyId(_)
ScanAnyId(messages) ==
    IF Len(messages) = 0 THEN [r |-> "none", msg |-> JsonNull]
    ELSE IF Head(messages).json = "null" THEN [r |-> "throw", msg |-> JsonNull]
    ELSE IF Head(messages).id # 0 THEN [r |-> "match", msg |-> Head(messages)]
    ELSE ScanAnyId(Tail(messages))
RECURSIVE ScanLast(_)
ScanLast(messages) ==
    IF Len(messages) = 0 THEN [r |-> "none", msg |-> JsonNull]
    ELSE IF Head(messages).json = "null" THEN [r |-> "throw", msg |-> JsonNull]
    ELSE LET later == ScanLast(Tail(messages))
         IN  IF later.r # "none" THEN later
             ELSE IF Head(messages).id = finalRequestId
             THEN [r |-> "match", msg |-> Head(messages)]
             ELSE later
RECURSIVE Scan(_)
Scan(messages) ==
    IF Len(messages) = 0 THEN [r |-> "none", msg |-> JsonNull]
    ELSE IF Head(messages).json = "null" THEN [r |-> "throw", msg |-> JsonNull]
    ELSE IF Head(messages).id = finalRequestId
         THEN [r |-> "match", msg |-> Head(messages)]
    ELSE Scan(Tail(messages))

\* What the handler does with the matching message.
MatchOutcomeResultOnly(msg) == Resolved(msg.result)
MatchOutcome(msg) ==
    IF msg.error.k = "object"
    THEN Rejected(msg.error.message)
    ELSE Resolved(msg.result)

\* The child writes on its stdout.
ServerWrite(units) ==
    /\ pc = "running" /\ hostUp /\ proc = "running"
    /\ UNCHANGED <<framerVars, adapterVars, availVars, concVars>>
    /\ Len(wire) + Len(units) <= MaxWire
    /\ wire' = wire \o units
    /\ UNCHANGED <<pc, args, proc, exitCode, stdout, stderr, stdin, messageId,
                   resolved, timeoutId, outcome, settledBy, killed,
                   errorPending, closed, hostUp>>

\* proc.stdout 'data': the next k units of the stream arrive as one chunk.
\* Buffered output still arrives after the child was signalled or has exited,
\* until the stream ends ('close').
StdoutData(k) ==
    /\ pc = "running" /\ hostUp /\ ~closed
    /\ UNCHANGED <<framerVars, adapterVars, availVars, concVars>>
    /\ k >= 1 /\ Len(stdout) + k <= Len(wire)
    /\ stdout' = SubSeq(wire, 1, Len(stdout) + k)
    /\ LET scan == Scan(parseMessages(stdout'))
       IN  CASE scan.r = "match" ->
                   /\ ClearTimeout
                   /\ resolved' = TRUE
                   /\ Kill
                   /\ outcome' = Settle(outcome, MatchOutcome(scan.msg))
                   /\ settledBy' = IF outcome.kind = "pending"
                                   THEN "response" ELSE settledBy
                   /\ UNCHANGED hostUp
             [] scan.r = "throw" ->
                   \* An exception leaves the listener: the host's
                   \* uncaught-exception handling ends the process, unless
                   \* the host has installed a handler.
                   /\ \E handled \in BOOLEAN : hostUp' = handled
                   /\ UNCHANGED <<timeoutId, resolved, killed, outcome,
                                  settledBy>>
             [] OTHER ->
                   UNCHANGED <<timeoutId, resolved, killed, outcome, settledBy,
                               hostUp>>
    /\ UNCHANGED <<pc, args, proc, exitCode, wire, stderr, stdin, messageId,
                   errorPending, closed>>

\* proc.stderr 'data'.
StderrData(chunk) ==
    /\ pc = "running" /\ hostUp /\ proc = "running"
    /\ UNCHANGED <<framerVars, adapterVars, availVars, concVars>>
    /\ Len(stderr) < MaxErr
    /\ stderr' = Append(stderr, chunk)
    /\ UNCHANGED <<pc, args, proc, exitCode, wire, stdout, stdin, messageId,
                   resolved, timeoutId, outcome, settledBy, killed,
                   errorPending, closed, hostUp>>

\* The child ends, by itself or by a signal.
ProcExit(code) ==
    /\ pc = "running" /\ hostUp /\ proc = "running"
    /\ UNCHANGED <<framerVars, adapterVars, availVars, concVars>>
    /\ proc' = "exited"
    /\ exitCode' = code
    /\ UNCHANGED <<pc, args, wire, stdout, stderr, stdin, messageId, resolved,
                   timeoutId, outcome, settledBy, killed, errorPending, closed,
                   hostUp>>

\* proc 'error': the spawn failure, reported on the next tick.
ErrorHandlerSilent(errMessage) ==
    UNCHANGED <<timeoutId, resolved, outcome, settledBy>>
ErrorHandler(errMessage) ==
    IF ~resolved
    THEN /\ ClearTimeout
         /\ resolved' = TRUE
         /\ outcome' = Settle(outcome, Rejected(ProcessError(errMessage)))
         /\ settledBy' = IF outcome.kind = "pending" THEN "error" ELSE settledBy
    ELSE UNCHANGED <<timeoutId, resolved, outcome, settledBy>>

ProcError ==
    /\ pc = "running" /\ hostUp /\ errorPending
    /\ UNCHANGED <<framerVars, adapterVars, availVars, concVars>>
    /\ errorPending' = FALSE
    /\ ErrorHandler(SpawnErrorMessage(exitCode))
    /\ UNCHANGED <<pc, args, proc, exitCode, wire, stdout, stderr, stdin,
                   messageId, killed, closed, hostUp>>

\* proc 'close': the child has ended (or never started) and its streams have
\* ended, so everything it wrote has been delivered.
CloseHandlerNoStderr(code) ==
    IF ~resolved
    THEN /\ ClearTimeout
         /\ resolved' = TRUE
         /\ outcome' = Settle(outcome, Rejected(ExitError(code, <<>>)))
         /\ settledBy' = IF outcome.kind = "pending" THEN "close" ELSE settledBy
    ELSE UNCHANGED <<timeoutId, resolved, outcome, settledBy>>
CloseHandler(code) ==
    IF ~resolved
    THEN /\ ClearTimeout
         /\ resolved' = TRUE
         /\ outcome' = Settle(outcome, Rejected(ExitError(code, stderr)))
         /\ settledBy' = IF outcome.kind = "pending" THEN "close" ELSE settledBy
    ELSE UNCHANGED <<timeoutId, resolved, outcome, settledBy>>

ProcClose ==
    /\ pc = "running" /\ hostUp /\ ~errorPending /\ ~closed
    /\ UNCHANGED <<framerVars, adapterVars, availVars, concVars>>
    /\ proc \in {"exited", "failed"}
    /\ Len(stdout) = Len(wire)
    /\ closed' = TRUE
    /\ CloseHandler(exitCode)
    /\ UNCHANGED <<pc, args, proc, exitCode, wire, stdout, stderr, stdin,
                   messageId, killed, errorPending, hostUp>>

----------------------------------------------------------------------------
Next ==
    \/ \E query \in Queries, requestMethod \in RequestMethods,
          requestParams \in Positions :
          executeSession(query, requestMethod, requestParams)
    \/ \E units \in ServerWrites : ServerWrite(units)
    \/ \E k \in 1..MaxWire : StdoutData(k)
    \/ \E chunk \in StderrChunks : StderrData(chunk)
    \/ \E code \in ExitCodes : ProcExit(code)
    \/ TimerFires
    \/ ProcError
    \/ ProcClose

Spec == Init /\ [][Next]_vars

\* The event loop runs the next tick and, as the claim about termination
\* assumes, the armed deadline timer eventually fires.
FairSpec == Spec /\ WF_vars(TimerFires) /\ WF_vars(ProcError)

----------------------------------------------------------------------------
\* Observations used by the properties.

Settled == outcome.kind # "pending"
Decoded == parseMessages(stdout)
FinalIndexes == {i \in 1..Len(Decoded) : Decoded[i].id = finalRequestId}
FirstFinal == Decoded[CHOOSE i \in FinalIndexes : \A j \in FinalIndexes : i <= j]
MatchObserved == Scan(Decoded).r = "match"
ChildGone == proc \in {"exited", "failed"}

\* C1: once the promise of a session is settled, no later step (stdout chunk,
\* timer, 'error', 'close') changes the outcome the caller gets.
OutcomeDeliveredOnce == [][Settled => outcome' = outcome]_vars

\* C1 witness: the timeout was delivered and afterwards a chunk with a frame
\* of the reserved id was handled.
LateResponseAfterTimeout ==
    /\ settledBy = "timeout"
    /\ MatchObserved
    /\ closed

\* C2: whenever the outcome has been delivered, the child has exited, never
\* started, or has been sent a termination signal.
NoRunningChildAfterOutcome == Settled => (ChildGone \/ killed)

\* C2 witness: the timeout outcome with the child still running and signalled.
TimedOutChildSignalled ==
    /\ settledBy = "timeout" /\ proc = "running" /\ killed

\* C3: once the deadline timer has fired, the outcome is the timeout error
\* and a child that is still running has been signalled.
TimerFiringFailsWithTimeout ==
    timeoutId = "fired" =>
        /\ outcome = Rejected(TimeoutError(DefaultTimeout))
        /\ proc = "running" => killed

\* C3 witness: the timer fired on a live child that sent only other frames.
TimerFiredOnSilentChild ==
    /\ timeoutId = "fired" /\ proc = "running" /\ killed
    /\ Len(Decoded) > 0 /\ FinalIndexes = {}
    /\ outcome = Rejected(TimeoutError(DefaultTimeout))

\* C4: every started session eventually delivers an outcome.
SessionTerminates == (pc = "running") ~> Settled

\* C5: the driver writes exactly the initialize request (id 1), the
\* initialized notification, the didOpen notification (query text, 'spq',
\* version 1) and the capability request (id 3), in this order, and does so
\* before any output of the server is processed.
WrittenMessage(i) == JSONparse(Tail(stdin[i])).value
FourWritesInOrder ==
    /\ pc = "idle" => stdin = <<>> /\ stdout = <<>>
    /\ pc = "running" =>
        /\ Len(stdin) = 4
        /\ \A i \in 1..4 : stdin[i][1] = Header(Len(stdin[i]) - 1)
        /\ WrittenMessage(1).id = 1
        /\ WrittenMessage(1).method = "initialize"
        /\ WrittenMessage(2).id = 0
        /\ WrittenMessage(2).method = "initialized"
        /\ WrittenMessage(3).id = 0
        /\ WrittenMessage(3).method = "textDocument/didOpen"
        /\ WrittenMessage(3).params =
              <<"uri", uri, "languageId", "spq", "version", "1",
                "text", args.query>>
        /\ WrittenMessage(4).id = 3
        /\ WrittenMessage(4).method = args.requestMethod
        /\ WrittenMessage(4).params = args.requestParams

\* C5 witness: server output has been processed after the four writes.
OutputProcessedAfterWrites ==
    /\ Len(stdin) = 4 /\ Len(Decoded) > 0
    /\ args.requestMethod = "textDocument/hover"

\* C6: the session succeeds, or fails with the server's error, only when a
\* decoded message with the reserved id is in the child's output.
OnlyReservedIdResolves ==
    (outcome.kind = "resolved" \/ settledBy = "response") => FinalIndexes # {}

\* C6 witness: a failed initialize response (id 1 with an error object) and a
\* notification were decoded and the session is still pending.
OtherIdsLeaveSessionPending ==
    /\ Len(Decoded) = 2
    /\ Decoded[1] = InitializeFailure
    /\ Decoded[2] = Notification
    /\ ~Settled /\ ~resolved

\* C7: the first decoded message with the reserved id decides the outcome of
\* a session settled by the stdout handler: its error message when it carries
\* an error object, its result otherwise; the child is then signalled.
ResponseDecidesOutcome ==
    settledBy = "response" =>
        /\ FirstFinal.error.k = "object" =>
              outcome = Rejected(FirstFinal.error.message)
        /\ FirstFinal.error.k # "object" =>
              outcome = Resolved(FirstFinal.result)
        /\ ChildGone \/ killed

\* C7 witness: a response with an error object failed the session.
ErrorResponseRejects ==
    /\ settledBy = "response"
    /\ FirstFinal = FinalError(<<"method not found">>)
    /\ outcome = Rejected(<<"method not found">>)
    /\ killed

\* C8: when the executable cannot be started, the outcome is the process
\* error, delivered by the 'error' event before the deadline timer can fire;
\* it is never the timeout and never the early-exit error.
SpawnFailureOutcome ==
    proc = "failed" =>
        /\ timeoutId # "fired"
        /\ errorPending => ~Settled
        /\ ~errorPending =>
              /\ outcome = Rejected(ProcessError(SpawnErrorMessage(exitCode)))
              /\ settledBy = "error"

\* C8 witness: the spawn failed, 'error' and 'close' were both delivered.
SpawnFailedAndClosed ==
    /\ proc = "failed" /\ closed
    /\ outcome = Rejected(<<"LSP process error: ", "spawn ", lspPath, " ",
                            "ENOENT">>)

\* C9: when the 'close' of an exited child is handled before a message with
\* the reserved id was observed and before the timer fired, the outcome is
\* the early-exit error with the exit code and all captured stderr text.
EarlyExitOutcome ==
    (closed /\ proc = "exited" /\ ~MatchObserved /\ timeoutId # "fired") =>
        outcome = Rejected(ExitError(exitCode, stderr))

\* C9 witness: the child wrote to stderr and exited with code 0 after an
\* initialize response only.
ExitedEarlyWithStderr ==
    /\ closed /\ proc = "exited" /\ exitCode = "0"
    /\ stderr = <<"panic: boom">>
    /\ Decoded = <<InitializeResponse>>
    /\ outcome = Rejected(<<"LSP process exited with code ", "0",
                            " before responding: ", "panic: boom">>)

\* C10: the delivered error tells the failure kind: the error of a failed
\* session is never an error that the timeout, the spawn failure or the early
\* exit delivers, unless that kind is the one that failed the session.
DriverFailureKinds == {"timeout", "error", "close"}
ErrorsOf(kind) ==
    CASE kind = "timeout" -> {TimeoutError(DefaultTimeout)}
      [] kind = "error" ->
            {ProcessError(SpawnErrorMessage(e)) : e \in SpawnErrnos}
      [] kind = "close" ->
            {ExitError(c, <<>>) : c \in ExitCodes}
                \cup {ExitError(c, <<t>>) : c \in ExitCodes, t \in StderrChunks}
FailureKindsDistinguishable ==
    outcome.kind = "rejected" =>
        \A kind \in DriverFailureKinds \ {settledBy} :
            outcome.value \notin ErrorsOf(kind)

----------------------------------------------------------------------------
\* C11: after an exception raised inside the session (here: the stdout
\* handler throwing on a decoded message), the child is eventually gone or
\* has been sent a termination signal.
ExceptionRaised == pc = "running" /\ Scan(Decoded).r = "throw"
ExceptionStillTerminatesChild == ExceptionRaised ~> (ChildGone \/ killed)

\* C19: a complete frame whose body is no usable message (undecodable, or
\* the value null) is invisible to the caller: when the usable messages the
\* handler was given hold one with the reserved id, the session is settled,
\* as it would be had the unusable frame not been in the stream.
IsObject(m) == m.json = "object"
Usable == SelectSeq(Decoded, IsObject)
UnusableFrameInvisible == (Scan(Usable).r = "match") => Settled

----------------------------------------------------------------------------
\* The framer on its own.  What formatMessage returns is a string; written
\* to a pipe it is encoded as UTF-8, and what arrives is decoded chunk by
\* chunk (chunk.toString()), accumulated and handed to parseMessages.

MaxFrames == 2   \* messages encoded in one run of the framer
MaxChunk == 3    \* bytes in one chunk
MaxNoise == 1    \* runs of bytes that are no header, in one stream

\* Bytes of the UTF-8 encoding of a character; the header and the ASCII
\* runs carried by one unit count as one byte each.
Utf8Size(unit) ==
    IF ~IsChar(unit) THEN 1
    ELSE CASE unit.t = "U+00E9" -> 2
           [] unit.t = "U+FFFD" -> 3
           [] OTHER -> 1

\* The i-th byte of the encoding of a unit.
Byte(unit, i) == [u |-> unit, i |-> i]

RECURSIVE Utf8Encode(_)
Utf8Encode(text) ==
    IF text = <<>> THEN <<>>
    ELSE [i \in 1..Utf8Size(Head(text)) |-> Byte(Head(text), i)]
             \o Utf8Encode(Tail(text))

\* Number of bytes of the UTF-8 encoding of a string.
Utf8Length(text) == Len(Utf8Encode(text))

\* chunk.toString(): UTF-8 decoding of one chunk on its own.  A sequence cut
\* by the end of the chunk, and every byte that continues nothing, decodes
\* to U+FFFD.
RECURSIVE toString(_)
toString(bytes) ==
    IF bytes = <<>> THEN <<>>
    ELSE LET b == Head(bytes)
             size == Utf8Size(b.u)
             \* the continuation bytes of b that follow it in the chunk
             follow == {j \in 1..(size - 1) :
                          /\ Len(bytes) >= 1 + j
                          /\ \A l \in 1..j : bytes[1 + l] = Byte(b.u, 1 + l)}
             have == Cardinality(follow)
         IN  IF b.i # 1 THEN <<Replacement>> \o toString(Tail(bytes))
             ELSE IF have = size - 1
             THEN <<b.u>> \o toString(SubSeq(bytes, size + 1, Len(bytes)))
             ELSE <<Replacement>>
                      \o toString(SubSeq(bytes, have + 2, Len(bytes)))

\* stdout += chunk.toString()
AccumulateReplace(buffer, chunk) == toString(chunk)
Accumulate(buffer, chunk) == buffer \o toString(chunk)

\* The buffer after a decode call: parseMessages works on a copy
\* (let remaining = buffer) and the handler keeps the whole buffer.
BufferAfterDecodeDropsHeader(buffer) ==
    IF buffer # <<>> /\ buffer[1].t = "H" /\ Len(buffer) < 1 + buffer[1].n
    THEN Tail(buffer)
    ELSE buffer
BufferAfterDecode(buffer) == buffer

\* The messages the framer is given: those of the driver.
FramerQueries == {"a", "<U+00E9>", "a<U+00E9>b"}
FramerMessages ==
    {ClientMessage(1, "initialize", InitializeParams),
     ClientMessage(0, "initialized", <<>>),
     ClientMessage(finalRequestId, "textDocument/hover",
                   <<"line", "0", "character", "4">>)}
        \cup {ClientMessage(0, "textDocument/didOpen", DidOpenParams(q)) :
                q \in FramerQueries}

\* proc.stdin.write(this.formatMessage(message))
FramerEncode(message) ==
    /\ Len(fSent) < MaxFrames
    /\ fSent' = Append(fSent, message)
    /\ fStream' = fStream \o Utf8Encode(formatMessage(message))
    /\ UNCHANGED <<fFed, fBuffer, fMessages>>
    /\ UNCHANGED <<sessionVars, adapterVars, availVars, concVars>>

\* A 'data' event carrying the next k bytes: accumulate, then decode.
FramerData(k) ==
    /\ fFed + k <= Len(fStream)
    /\ LET chunk == SubSeq(fStream, fFed + 1, fFed + k)
           buffer == Accumulate(fBuffer, chunk)
       IN  /\ fMessages' = parseMessages(buffer)
           /\ fBuffer' = BufferAfterDecode(buffer)
    /\ fFed' = fFed + k
    /\ UNCHANGED <<fSent, fStream>>
    /\ UNCHANGED <<sessionVars, adapterVars, availVars, concVars>>

\* The peer writes bytes that are no header (a diagnostic line, a second
\* header line).
FramerNoise ==
    /\ Cardinality({i \in DOMAIN fStream : fStream[i].u = Garbage}) < MaxNoise
    /\ fStream' = fStream \o Utf8Encode(<<Garbage>>)
    /\ UNCHANGED <<fSent, fFed, fBuffer, fMessages>>
    /\ UNCHANGED <<sessionVars, adapterVars, availVars, concVars>>

FramerNext ==
    \/ \E message \in FramerMessages : FramerEncode(message)
    \/ FramerNoise
    \/ \E k \in 1..MaxChunk : FramerData(k)

FramerSpec == Init /\ [][FramerNext]_vars

----------------------------------------------------------------------------
\* Observations on the framer.

Tagged(messages) ==
    [i \in 1..Len(messages) |-> [jsonrpc |-> "2.0"] @@ messages[i]]
RECURSIVE Frames(_)
Frames(messages) ==
    IF messages = <<>> THEN <<>>
    ELSE formatMessage(Head(messages)) \o Frames(Tail(messages))
Prefix(text, p) == SubSeq(text, 1, p)
Suffix(text, p) == SubSeq(text, p + 1, Len(text))
NextChunk == SubSeq(fStream, fFed + 1, fFed')
IncompleteFront(buffer) ==
    /\ buffer # <<>>
    /\ buffer[1].t = "H"
    /\ Len(buffer) < 1 + buffer[1].n

\* C15: a message encoded by formatMessage and decoded by parseMessages comes
\* back as exactly one message, the original with the jsonrpc tag; the
\* concatenation of several encoded messages decodes to them in order.
RoundTrip ==
    /\ \A i \in 1..Len(fSent) :
          parseMessages(formatMessage(fSent[i])) = Tagged(<<fSent[i]>>)
    /\ parseMessages(Frames(fSent)) = Tagged(fSent)
TwoFramesDecodedInOrder ==
    /\ Len(fSent) = 2
    /\ fSent[1] # fSent[2]
    /\ HasText(fSent[1]) /\ fSent[1].params[8] = "a<U+00E9>b"
    /\ fBuffer = Frames(fSent)
    /\ fMessages = Tagged(fSent)

\* C16: the number in the header of every written message is the number of
\* bytes of the UTF-8 encoding of its body.
HeaderCountsUtf8Bytes ==
    \A i \in 1..Len(fSent) :
        LET frame == formatMessage(fSent[i])
        IN  frame[1].n = Utf8Length(Tail(frame))

IncompleteFrameKeepsBuffer ==
    [][(fFed' > fFed /\ IncompleteFront(Accumulate(fBuffer, NextChunk)))
          => ( /\ fMessages' = <<>>
               /\ fBuffer' = Accumulate(fBuffer, NextChunk) )]_vars
HeaderWithoutWholeBody ==
    /\ IncompleteFront(fBuffer)
    /\ Len(fBuffer) > 1
    /\ fMessages = <<>>

----------------------------------------------------------------------------
\* The capability adapters (getCompletions, getHover) and the tools above
\* them (superComplete, superDocs), on one finished session.  Here the
\* payload of the final response is a JSON value with its structure.

Undefined == [t |-> "undefined"]
Null == [t |-> "null"]
Str(s) == [t |-> "string", s |-> s]
Num(n) == [t |-> "number", n |-> n]
Arr(elems) == [t |-> "array", elems |-> elems]
Obj(fields) == [t |-> "object", fields |-> fields]

\* v.f, for a value v that is not null or undefined.
Get(v, f) ==
    IF v.t = "object" /\ f \in DOMAIN v.fields THEN v.fields[f] ELSE Undefined
\* if (v)
Truthy(v) ==
    CASE v.t \in {"undefined", "null"} -> FALSE
      [] v.t = "string" -> v.s # ""
      [] v.t = "number" -> v.n # 0
      [] OTHER -> TRUE
\* typeof v === 'object'
TypeofObject(v) == v.t \in {"null", "array", "object"}
\* f in v, for an object or an array v
In(f, v) == v.t = "object" /\ f \in DOMAIN v.fields

\* Completion items and hover contents a server can send.
Item(label) == Obj([label |-> Str(label)])
DocumentedItem(label, documentation) ==
    Obj([label |-> Str(label), kind |-> Num(3), detail |-> Str("aggregate"),
         documentation |-> documentation])
Markup(value) == Obj([kind |-> Str("markdown"), value |-> Str(value)])

Payloads ==
    { Undefined, Null, Str("avg"), Num(7),
      Arr(<<>>),
      Arr(<<Item("avg")>>),
      Arr(<<Item("avg"), DocumentedItem("count", Str("counts values"))>>),
      Arr(<<DocumentedItem("sum", Markup("adds values"))>>),
      Arr(<<Null>>),
      Obj([items |-> Arr(<<Item("avg")>>)]),
      Obj([isIncomplete |-> Str("false"), items |-> Arr(<<>>)]),
      Obj([items |-> Null]),
      Obj([items |-> Str("avg")]),
      Obj([isIncomplete |-> Str("false")]),
      Obj([contents |-> Str("doc of avg")]),
      Obj([contents |-> Markup("doc of avg")]),
      Obj([contents |-> Markup("doc of avg"), range |-> Str("0:0-0:3")]),
      Obj([contents |-> Arr(<<Str("doc of avg")>>)]),
      Obj([contents |-> Null]),
      Obj([range |-> Str("0:0-0:3")]) }

\* How a session can fail: the driver's failure kinds and the error texts of
\* the server.
FailedSessions ==
    {Rejected(TimeoutError(DefaultTimeout))}
        \cup {Rejected(ProcessError(SpawnErrorMessage(e))) : e \in SpawnErrnos}
        \cup {Rejected(ExitError(code, text)) :
                code \in ExitCodes, text \in {<<>>} \cup {<<c>> : c \in StderrChunks}}
        \cup {Rejected(text) : text \in ServerTexts}
SettledSessions == FailedSessions \cup {Resolved(p) : p \in Payloads}

\* What an async function hands to its caller.
Returned(v) == [kind |-> "returned", value |-> v]
Threw(text) == [kind |-> "threw", error |-> text]

\* The normalization of getCompletions: a bare sequence, or the items of a
\* wrapping object, or nothing.
Flatten(result) ==
    IF result.t = "array" THEN result
    ELSE IF Truthy(result) /\ TypeofObject(result) /\ In("items", result)
    THEN result.fields.items
    ELSE Arr(<<>>)

\* getCompletions after its session has settled.
getCompletionsNoCatch(session) ==
    IF session.kind = "rejected" THEN Threw(session.value)
    ELSE Returned(Flatten(session.value))
getCompletions(session) ==
    IF session.kind = "rejected" THEN Returned(Arr(<<>>))     \* catch
    ELSE Returned(Flatten(session.value))

\* getHover after its session has settled.
getHoverNoCatch(session) ==
    IF session.kind = "rejected" THEN Threw(session.value)
    ELSE Returned(session.value)
getHover(session) ==
    IF session.kind = "rejected" THEN Returned(Null)          \* catch
    ELSE Returned(session.value)

completionKindNames ==
    <<"text", "method", "function", "constructor", "field", "variable",
      "class", "interface", "module", "property", "unit", "value", "enum",
      "keyword", "snippet", "color", "file", "reference", "folder",
      "enumMember", "constant", "struct", "event", "operator",
      "typeParameter">>

\* The string of a documentation or of hover contents: the value itself, or
\* its value field.
Normalize(d, otherwise) ==
    IF d.t = "string" THEN d
    ELSE IF Truthy(d) /\ TypeofObject(d) THEN Get(d, "value")
    ELSE otherwise

\* The callback of items.map in superComplete.
MapItem(item) ==
    LET kind == Get(item, "kind")
    IN  [label |-> Get(item, "label"),
         kind |-> IF Truthy(kind)
                  THEN IF kind.t = "number" /\ kind.n \in DOMAIN completionKindNames
                       THEN Str(completionKindNames[kind.n])
                       ELSE Undefined
                  ELSE Undefined,
         detail |-> Get(item, "detail"),
         documentation |-> Normalize(Get(item, "documentation"), Undefined),
         insertText |-> Get(item, "insertText")]

TypeErrorText == <<"TypeError">>
CompletionFailure(text) ==
    [success |-> FALSE, completions |-> <<>>, lsp_available |-> TRUE,
     error |-> text]

\* superComplete, from the return of getCompletions on.
superComplete(ret) ==
    IF ret.kind = "threw" THEN CompletionFailure(ret.error)
    ELSE LET items == ret.value
         IN  IF items.t # "array" THEN CompletionFailure(TypeErrorText)
             ELSE IF \E i \in DOMAIN items.elems :
                        items.elems[i].t \in {"null", "undefined"}
             THEN CompletionFailure(TypeErrorText)
             ELSE [success |-> TRUE,
                   completions |-> [i \in DOMAIN items.elems |->
                                       MapItem(items.elems[i])],
                   lsp_available |-> TRUE,
                   error |-> Null]

DocsResult(success, documentation, error) ==
    [success |-> success, query |-> CHOOSE q \in Queries : TRUE,
     position |-> CHOOSE p \in Positions : TRUE,
     documentation |-> documentation, lsp_available |-> TRUE, error |-> error]

\* superDocs, from the return of getHover on.
superDocsRaw(ret) ==
    DocsResult(TRUE, Get(ret.value, "contents"), Null)
superDocs(ret) ==
    IF ret.kind = "threw" THEN DocsResult(FALSE, Null, ret.error)
    ELSE LET hover == ret.value
         IN  DocsResult(TRUE,
                        IF Truthy(hover)
                        THEN Normalize(Get(hover, "contents"), Null)
                        ELSE Null,
                        Null)

\* A tool calls its adapter, whose session settles.
SessionSettles(call, session) ==
    /\ aCall = "none"
    /\ aCall' = call
    /\ aSession' = session
    /\ UNCHANGED <<aReturn, aTool>>
    /\ UNCHANGED <<sessionVars, framerVars, availVars, concVars>>

\* The adapter resumes after its await and returns.
AdapterReturns ==
    /\ aCall # "none"
    /\ aReturn.kind = "none"
    /\ aReturn' = IF aCall = "getCompletions" THEN getCompletions(aSession)
                  ELSE getHover(aSession)
    /\ UNCHANGED <<aCall, aSession, aTool>>
    /\ UNCHANGED <<sessionVars, framerVars, availVars, concVars>>

\* The tool resumes after its await and returns.
ToolReturns ==
    /\ aReturn.kind # "none"
    /\ aTool.kind = "none"
    /\ aTool' = [kind |-> "result",
                 result |-> IF aCall = "getCompletions" THEN superComplete(aReturn)
                            ELSE superDocs(aReturn)]
    /\ UNCHANGED <<aCall, aSession, aReturn>>
    /\ UNCHANGED <<sessionVars, framerVars, availVars, concVars>>

AdapterNext ==
    \/ \E call \in {"getCompletions", "getHover"}, session \in SettledSessions :
          SessionSettles(call, session)
    \/ AdapterReturns
    \/ ToolReturns

AdapterSpec == Init /\ [][AdapterNext]_vars

\* C12: whatever the kind of failure of the session, getCompletions returns
\* the empty sequence and getHover returns null; neither throws.
AdapterFailureAbsorbed ==
    (aSession.kind = "rejected" /\ aReturn.kind # "none")
        => aReturn = IF aCall = "getCompletions" THEN Returned(Arr(<<>>))
                     ELSE Returned(Null)
SpawnFailureAbsorbed ==
    /\ aCall = "getCompletions"
    /\ aSession = Rejected(ProcessError(SpawnErrorMessage("ENOENT")))
    /\ aReturn = Returned(Arr(<<>>))

\* C13: on a successful session getCompletions returns a sequence: the
\* payload when it is a sequence, its items field when it is an object with
\* one, the empty sequence otherwise.
CompletionsAlwaysSequence ==
    (aCall = "getCompletions" /\ aSession.kind = "resolved"
        /\ aReturn.kind # "none")
        => LET result == aSession.value
           IN  /\ aReturn.kind = "returned"
               /\ aReturn.value.t = "array"
               /\ aReturn.value =
                     IF result.t = "array" THEN result
                     ELSE IF In("items", result) THEN Get(result, "items")
                     ELSE Arr(<<>>)

\* C14: the documentation of a successful hover is the contents when that is
\* a string, its value field when it is {kind, value}, and null for a null
\* hover.
IsMarkup(c) ==
    /\ c.t = "object"
    /\ DOMAIN c.fields = {"kind", "value"}
    /\ c.fields.value.t = "string"
HoverDocumentationNormalized ==
    (aCall = "getHover" /\ aSession.kind = "resolved" /\ aTool.kind = "result")
        => LET hover == aSession.value
               contents == Get(hover, "contents")
               documentation == aTool.result.documentation
           IN  /\ hover.t = "null" => documentation = Null
               /\ contents.t = "string" => documentation = contents
               /\ IsMarkup(contents)
                     => /\ documentation = contents.fields.value
                        /\ documentation.t = "string"
StructuredContentsNormalized ==
    /\ aCall = "getHover"
    /\ aSession = Resolved(Obj([contents |-> Markup("doc of avg")]))
    /\ aTool.kind = "result"
    /\ aTool.result.success
    /\ aTool.result.documentation = Str("doc of avg")

----------------------------------------------------------------------------
\* The availability probe (checkLspAvailability) and the process-wide cache
\* (getLspClient), with an environment that can change between calls.

MaxProbes == 2     \* probe processes spawned in one process lifetime
MaxSessions == 1   \* protocol sessions started by the tools

\* A path spawnSync refuses before spawning (it holds a null byte).
BadPath == "/opt/superdb-lsp\\0"
EnvPaths == {"", lspPath, BadPath}
ExeBehaviours == {"missing", "exits 0", "exits 1", "crashes", "hangs"}

\* process.env.SUPERDB_LSP_PATH || null
getLspPath(env) == IF env = "" THEN NullPath ELSE env

\* error: string | null
NoExplanation == [isNull |-> TRUE, text |-> <<>>]
Explanation(text) == [isNull |-> FALSE, text |-> text]
NotSetText ==
    <<"SUPERDB_LSP_PATH environment variable not set. ",
      "Install superdb-lsp for enhanced features.">>
FailedToStart(path, message) ==
    <<"LSP server at ", path, " failed to start: ">> \o message
FailedToCheck(message) == <<"Failed to check LSP: ">> \o message

\* spawnSync(path, [flag], {timeout: 2000}): it throws on an argument it
\* refuses; else its result carries an error when the process could not be
\* started or was stopped at the time bound, and the exit status otherwise
\* (null for a process ended by a signal).
spawnSync(path, behaviour) ==
    IF path = BadPath
    THEN [kind |-> "threw", error |-> <<>>, status |-> "",
          message |-> <<"The argument 'file' must be a string without null bytes">>]
    ELSE CASE behaviour = "missing" ->
                [kind |-> "result", error |-> <<"spawnSync ", path, " ENOENT">>,
                 status |-> "null", message |-> <<>>]
           [] behaviour = "hangs" ->
                [kind |-> "result", error |-> <<"spawnSync ", path, " ETIMEDOUT">>,
                 status |-> "null", message |-> <<>>]
           [] behaviour = "exits 0" ->
                [kind |-> "result", error |-> <<>>, status |-> "0",
                 message |-> <<>>]
           [] behaviour = "exits 1" ->
                [kind |-> "result", error |-> <<>>, status |-> "1",
                 message |-> <<>>]
           [] behaviour = "crashes" ->
                [kind |-> "result", error |-> <<>>, status |-> "null",
                 message |-> <<>>]

LSPAvailability(available, path, error) ==
    [kind |-> "availability", available |-> available, path |-> path,
     error |-> error]

\* checkLspAvailability: what it returns, and how many processes it spawns.
checkLspAvailabilityProbesFirst(env, behaviour) ==
    LET path == getLspPath(env)
        result == spawnSync(path, behaviour)
    IN  [returns |-> LSPAvailability(FALSE, path,
                                     Explanation(FailedToStart(path, result.error))),
         spawned |-> 1]
checkLspAvailability(env, behaviour) ==
    LET path == getLspPath(env)
    IN  IF path = NullPath
        THEN [returns |-> LSPAvailability(FALSE, NullPath, Explanation(NotSetText)),
              spawned |-> 0]
        ELSE LET result == spawnSync(path, behaviour)
             IN  [returns |->
                     IF result.kind = "threw"
                     THEN LSPAvailability(FALSE, path,
                                          Explanation(FailedToCheck(result.message)))
                     ELSE IF result.error # <<>>
                     THEN LSPAvailability(FALSE, path,
                                          Explanation(FailedToStart(path, result.error)))
                     ELSE LSPAvailability(TRUE, path, NoExplanation),
                  spawned |-> IF result.kind = "threw" THEN 0 ELSE 1]

\* The environment variable is set, changed or unset.
SetEnv(path) ==
    /\ envPath # path
    /\ envPath' = path
    /\ UNCHANGED <<exe, probes, availability, cacheVars, sessions, returned>>
    /\ UNCHANGED <<sessionVars, framerVars, adapterVars, concVars>>

\* The executable is installed, replaced or removed.
Install(behaviour) ==
    /\ exe # behaviour
    /\ exe' = behaviour
    /\ UNCHANGED <<envPath, probes, availability, cacheVars, sessions, returned>>
    /\ UNCHANGED <<sessionVars, framerVars, adapterVars, concVars>>

\* getLspStatus(): checkLspAvailability, whatever the cache holds.
getLspStatus ==
    LET check == checkLspAvailability(envPath, exe)
    IN  /\ probes + check.spawned <= MaxProbes
        /\ availability' = check.returns
        /\ probes' = probes + check.spawned
        /\ returned' = [call |-> "getLspStatus", value |-> check.returns]
        /\ UNCHANGED <<envPath, exe, cacheVars, sessions>>
        /\ UNCHANGED <<sessionVars, framerVars, adapterVars, concVars>>

\* One call of getLspClient() in the current state: the check on the first
\* call, the client on demand; the cache after the call and what it returns.
getLspClientCallAlwaysNew ==
    LET check == checkLspAvailability(envPath, exe)
        available == IF lspCheckDone THEN lspAvailable
                     ELSE check.returns.available
        client == IF available THEN LSPClient(getLspPath(envPath), 0)
                  ELSE lspClient
    IN  [spawned |-> IF lspCheckDone THEN 0 ELSE check.spawned,
         availability |-> IF lspCheckDone THEN availability ELSE check.returns,
         lspAvailable |-> available,
         lspClient |-> client,
         constructed |-> IF available THEN 1 ELSE 0,
         returns |-> IF available THEN client ELSE NoClient]
getLspClientCallRechecks ==
    LET check == checkLspAvailability(envPath, exe)
        recheck == ~lspCheckDone \/ ~lspAvailable
        available == IF recheck THEN check.returns.available ELSE lspAvailable
        client == IF available /\ ~lspClient.constructed
                  THEN LSPClient(getLspPath(envPath), 0)
                  ELSE lspClient
    IN  [spawned |-> IF recheck THEN check.spawned ELSE 0,
         availability |-> IF recheck THEN check.returns ELSE availability,
         lspAvailable |-> available,
         lspClient |-> client,
         constructed |-> IF available /\ ~lspClient.constructed THEN 1 ELSE 0,
         returns |-> IF available THEN client ELSE NoClient]
getLspClientCall ==
    LET check == checkLspAvailability(envPath, exe)
        spawned == IF lspCheckDone THEN 0 ELSE check.spawned
        available == IF lspCheckDone THEN lspAvailable
                     ELSE check.returns.available
        construct == available /\ ~lspClient.constructed
        \* new LSPClient() throws when no path is configured
        throws == construct /\ getLspPath(envPath) = NullPath
        client == IF construct /\ ~throws
                  THEN LSPClient(getLspPath(envPath), 0)
                  ELSE lspClient
    IN  [spawned |-> spawned,
         availability |-> IF lspCheckDone THEN availability ELSE check.returns,
         lspAvailable |-> (available /\ ~throws),
         lspClient |-> client,
         constructed |-> IF construct /\ ~throws THEN 1 ELSE 0,
         returns |-> IF available /\ ~throws THEN client ELSE NoClient]

\* getLspClient() called on its own.
getLspClient ==
    LET call == getLspClientCall
    IN  /\ probes + call.spawned <= MaxProbes
        /\ probes' = probes + call.spawned
        /\ availability' = call.availability
        /\ lspCheckDone' = TRUE
        /\ lspAvailable' = call.lspAvailable
        /\ lspClient' = call.lspClient
        /\ constructions' = constructions + call.constructed
        /\ returned' = [call |-> "getLspClient", value |-> call.returns]
        /\ UNCHANGED <<envPath, exe, sessions>>
        /\ UNCHANGED <<sessionVars, framerVars, adapterVars, concVars>>

\* A tool that has its client awaits the session of its adapter.
SessionStarted == [awaits |-> "session"]

\* What superComplete and superDocs return without a client.
NotAvailableResult(error) ==
    [success |-> FALSE, lsp_available |-> FALSE,
     error |-> IF error.isNull \/ error.text = <<>>
               THEN <<"LSP not available">> ELSE error.text]

\* superComplete / superDocs up to the start of the session: without a
\* client they run checkLspAvailability once more for the error text; with
\* one they start a protocol session.
CapabilityTool(tool) ==
    LET call == getLspClientCall
        check == checkLspAvailability(envPath, exe)
        spawned == IF call.returns = NoClient
                   THEN call.spawned + check.spawned
                   ELSE call.spawned
    IN  /\ probes + spawned <= MaxProbes
        /\ call.returns # NoClient => sessions < MaxSessions
        /\ probes' = probes + spawned
        /\ lspCheckDone' = TRUE
        /\ lspAvailable' = call.lspAvailable
        /\ lspClient' = call.lspClient
        /\ constructions' = constructions + call.constructed
        /\ IF call.returns = NoClient
           THEN /\ availability' = check.returns
                /\ sessions' = sessions
                /\ returned' = [call |-> tool,
                                value |-> NotAvailableResult(check.returns.error)]
           ELSE /\ availability' = call.availability
                /\ sessions' = sessions + 1
                /\ returned' = [call |-> tool, value |-> SessionStarted]
        /\ UNCHANGED <<envPath, exe>>
        /\ UNCHANGED <<sessionVars, framerVars, adapterVars, concVars>>

\* superLspStatus (the tool super_lsp_status): its own probe, with the flag
\* --version, available when the exit status is 0.
LspStatusResult(available, path) ==
    [available |-> available, path |-> path,
     setup |-> IF available THEN "null" ELSE "setup instructions"]
superLspStatus(env, behaviour) ==
    LET path == getLspPath(env)
    IN  IF path = NullPath
        THEN [returns |-> LspStatusResult(FALSE, NullPath), spawned |-> 0]
        ELSE LET result == spawnSync(path, behaviour)
             IN  IF result.kind = "threw"
                 THEN [returns |-> LspStatusResult(FALSE, path), spawned |-> 0]
                 ELSE [returns |-> LspStatusResult(result.status = "0", path),
                       spawned |-> 1]

super_lsp_status ==
    LET status == superLspStatus(envPath, exe)
    IN  /\ probes + status.spawned <= MaxProbes
        /\ probes' = probes + status.spawned
        /\ returned' = [call |-> "super_lsp_status", value |-> status.returns]
        /\ UNCHANGED <<envPath, exe, availability, cacheVars, sessions>>
        /\ UNCHANGED <<sessionVars, framerVars, adapterVars, concVars>>

AvailNext ==
    \/ \E path \in EnvPaths : SetEnv(path)
    \/ \E behaviour \in ExeBehaviours : Install(behaviour)
    \/ getLspStatus
    \/ getLspClient
    \/ \E tool \in {"super_complete", "super_docs"} : CapabilityTool(tool)
    \/ super_lsp_status

AvailSpec == Init /\ [][AvailNext]_vars

\* C20: with no path configured a check reports available = false, a null
\* path and an explanation, and spawns no process.
NoPathNoProbe ==
    [][(getLspPath(envPath) = NullPath
          /\ (getLspStatus \/ (~lspCheckDone /\ getLspClient)))
          => ( /\ availability'.available = FALSE
               /\ availability'.path = NullPath
               /\ ~availability'.error.isNull
               /\ availability'.error.text # <<>>
               /\ probes' = probes )]_vars
CheckedWithoutPath ==
    /\ envPath = ""
    /\ exe = "exits 0"
    /\ lspCheckDone
    /\ probes = 0
    /\ availability = LSPAvailability(FALSE, NullPath, Explanation(NotSetText))

\* C21: with a path configured, a check reports available = false with an
\* explanation when the probe could not be spawned, ended with a non-zero or
\* abnormal status, or ran into its time bound, and available = true
\* otherwise.
ProbeFailed(env, behaviour) ==
    \/ env = BadPath \/ behaviour = "missing"       \* could not be spawned
    \/ behaviour \in {"exits 1", "crashes"}         \* non-zero or abnormal exit
    \/ behaviour = "hangs"                          \* time bound
ProbeFailuresReported ==
    [][(getLspPath(envPath) # NullPath /\ getLspStatus)
          => ( /\ availability'.available = ~ProbeFailed(envPath, exe)
               /\ ~availability'.available => ~availability'.error.isNull )]_vars

\* C22: the executable is probed at most once in a process lifetime,
\* whatever tools are called.
ProbedAtMostOnce == probes <= 1

\* C23: at most one client is ever constructed, a call that returns a client
\* returns the cached one, and a cached client implies a check that was done
\* and found the server available.
ClientSingleton ==
    /\ constructions <= 1
    /\ lspClient.constructed => (lspCheckDone /\ lspAvailable)
    /\ (returned.call = "getLspClient" /\ returned.value # NoClient)
          => returned.value = lspClient
ClientKeptAcrossEnvChange ==
    /\ constructions = 1
    /\ returned.call = "getLspClient"
    /\ returned.value = lspClient
    /\ lspClient = LSPClient(lspPath, 0)
    /\ envPath = BadPath

\* C29: once the cache says unavailable it says so for good: no later call
\* makes it available, getLspClient returns null, and the tools start no
\* session, whatever the environment has become.
UnavailableIsFinal ==
    [][(lspCheckDone /\ ~lspAvailable)
          => ( /\ lspCheckDone' /\ ~lspAvailable'
               /\ lspClient' = lspClient
               /\ sessions' = sessions
               /\ getLspClient => returned'.value = NoClient )]_vars
StaleUnavailable ==
    /\ lspCheckDone /\ ~lspAvailable
    /\ envPath = lspPath /\ exe = "exits 0"
    /\ returned = [call |-> "super_complete",
                   value |-> NotAvailableResult(NoExplanation)]
    /\ sessions = 0

\* C30: what super_lsp_status reports as available is what
\* checkLspAvailability computes for the same executable.
StatusAgreesWithCheck ==
    [][super_lsp_status
          => returned'.value.available
                = checkLspAvailability(envPath, exe).returns.available]_vars

\* C28: the tool result of a failed session is a success with nothing in
\* it, the same as for a server that answered with no completions or with a
\* null hover.
FailedSessionLooksEmpty ==
    (aSession.kind = "rejected" /\ aTool.kind = "result")
        => /\ aTool.result.success
           /\ aTool.result.lsp_available
           /\ aTool.result.error = Null
           /\ IF aCall = "getCompletions"
              THEN /\ aTool.result.completions = <<>>
                   /\ aTool.result
                         = superComplete(getCompletions(Resolved(Arr(<<>>))))
              ELSE /\ aTool.result.documentation = Null
                   /\ aTool.result = superDocs(getHover(Resolved(Null)))
TimeoutLooksLikeNoHover ==
    /\ aCall = "getHover"
    /\ aSession = Rejected(TimeoutError(DefaultTimeout))
    /\ aTool.kind = "result"
    /\ aTool.result = DocsResult(TRUE, Null, Null)

----------------------------------------------------------------------------
\* C26: parseMessages returns, in order, the decodable bodies of the maximal
\* run of complete frames that starts at offset 0, and stops for good at the
\* first position that holds no header: once the buffer is stuck there, no
\* later decode returns anything more.

\* The positions of the buffer at which a run of complete frames ends.
Boundaries(buffer) ==
    LET b[p \in 0..Len(buffer)] ==
            \/ p = 0
            \/ \E q \in 0..(p - 1) :
                  /\ buffer[q + 1].t = "H"
                  /\ p = q + 1 + buffer[q + 1].n
                  /\ b[q]
    IN  {p \in 0..Len(buffer) : b[p]}
LastBoundary(buffer) ==
    CHOOSE p \in Boundaries(buffer) : \A q \in Boundaries(buffer) : q <= p
IsOk(parsed) == parsed.ok
ExpectedMessages(buffer) ==
    LET ends == Boundaries(buffer)
        start(p) == CHOOSE q \in ends : q < p /\ p = q + 1 + buffer[q + 1].n
        bodies == [p \in 1..Len(buffer) |->
                      IF p \in ends
                      THEN JSONparse(SubSeq(buffer, start(p) + 2, p))
                      ELSE [ok |-> FALSE, value |-> JsonNull]]
        decodable == SelectSeq(bodies, IsOk)
    IN  [i \in 1..Len(decodable) |-> decodable[i].value]
Stuck(buffer) ==
    /\ LastBoundary(buffer) < Len(buffer)
    /\ buffer[LastBoundary(buffer) + 1].t # "H"
MaximalRunDecoded ==
    [][ /\ fFed' > fFed => fMessages' = ExpectedMessages(fBuffer')
        /\ Stuck(fBuffer) => fMessages' = fMessages ]_vars
FrameAfterNoiseNeverDecoded ==
    /\ Stuck(fBuffer)
    /\ fSent # <<>>
    /\ fFed = Len(fStream)
    /\ \E i \in 1..Len(fBuffer) :
          /\ fBuffer[i] = Garbage
          /\ SubSeq(fBuffer, i + 1, Len(fBuffer))
                = formatMessage(fSent[Len(fSent)])
    /\ Len(fMessages) = Len(fSent) - 1

----------------------------------------------------------------------------
\* C25: a session settled by the stdout handler was settled by a response: a
\* message with the reserved id that carries no method.
OnlyResponsesResolve == settledBy = "response" => FirstFinal.method = ""

\* C27: with several frames of the reserved id in the output, the outcome of
\* a session settled by the stdout handler is that of the first of them, and
\* no later chunk changes it.
FirstFinalAloneDecides ==
    [][ /\ (settledBy' = "response" /\ Cardinality(FinalIndexes') >= 2)
            => outcome' = MatchOutcome(FirstFinal')
        /\ settledBy = "response"
            => (outcome' = outcome /\ settledBy' = settledBy) ]_vars
SecondFinalIgnored ==
    /\ settledBy = "response"
    /\ Len(stdout) = Len(wire)
    /\ Decoded = <<FinalError(<<"method not found">>), FinalResult(<<"R1">>)>>
    /\ outcome = Rejected(<<"method not found">>)

----------------------------------------------------------------------------
\* Concurrent calls of executeSession on the one client.  The variables of a
\* session (stdout, resolved, messageId, timeoutId, resolve/reject, proc) are
\* declared inside the executor, so every call has its own; the handlers of
\* a call reach them through its closure.  Output on stderr is left out.

MaxConcWire == 3   \* units a child writes on its stdout

\* The closure the handlers of call c use.
OwnerOnInstance(c) == "A"
Owner(c) == c

ConcurrentWrites ==
    {Frame(Stringify(FinalResult(<<"R1">>))),
     Frame(Stringify(Notification)),
     Frame(NullText)}

\* `if (!resolved) { clearTimeout; resolved = true; reject(error) }`
FailUnlessResolved(closure, text) ==
    IF closure.resolved THEN closure
    ELSE [closure EXCEPT !.timeoutId = IF @ = "armed" THEN "cleared" ELSE @,
                         !.resolved = TRUE,
                         !.outcome = Settle(@, Rejected(text))]
\* proc.kill()
Killed(child) == [child EXCEPT !.killed = (@ \/ child.proc = "running")]

\* The executor of call c runs: spawn, timer, handlers, the four writes.
ConcStart(c, requestMethod) ==
    /\ host = "up"
    /\ closures[Owner(c)].pc = "idle"
    /\ children[c].proc = "none"
    /\ \E spawn \in {"ok", "ENOENT"} :
          children' = [children EXCEPT ![c] =
                          [NoChild EXCEPT
                              !.proc = IF spawn = "ok" THEN "running" ELSE "failed",
                              !.exitCode = IF spawn = "ok" THEN "" ELSE spawn,
                              !.errorPending = (spawn # "ok")]]
    /\ closures' = [closures EXCEPT ![Owner(c)] =
                       [IdleClosure EXCEPT
                           !.pc = "running",
                           !.requestMethod = requestMethod,
                           !.stdin = SessionWrites(CHOOSE q \in Queries : TRUE,
                                                   requestMethod,
                                                   CHOOSE p \in Positions : TRUE),
                           !.messageId = finalRequestId,
                           !.timeoutId = "armed"]]
    /\ UNCHANGED host
    /\ UNCHANGED <<sessionVars, framerVars, adapterVars, availVars>>

\* The child of call c writes on its stdout.
ConcServerWrite(c, units) ==
    /\ host = "up"
    /\ children[c].proc = "running"
    /\ Len(children[c].wire) + Len(units) <= MaxConcWire
    /\ children' = [children EXCEPT ![c].wire = @ \o units]
    /\ UNCHANGED <<closures, host>>
    /\ UNCHANGED <<sessionVars, framerVars, adapterVars, availVars>>

\* 'data' on the stdout of the child of call c.
ConcStdoutData(c, k) ==
    /\ host = "up"
    /\ ~children[c].closed
    /\ children[c].fed + k <= Len(children[c].wire)
    /\ LET o == Owner(c)
           chunk == SubSeq(children[c].wire, children[c].fed + 1,
                           children[c].fed + k)
           buffer == closures[o].stdout \o chunk
           scan == Scan(parseMessages(buffer))
           fedMore == [children EXCEPT ![c].fed = @ + k]
       IN  CASE scan.r = "match" ->
                   /\ closures' = [closures EXCEPT ![o] =
                         [@ EXCEPT !.stdout = buffer,
                                   !.timeoutId = IF @ = "armed" THEN "cleared" ELSE @,
                                   !.resolved = TRUE,
                                   !.outcome = Settle(@, MatchOutcome(scan.msg))]]
                   /\ children' = [fedMore EXCEPT ![o] = Killed(@)]
                   /\ UNCHANGED host
             [] scan.r = "throw" ->
                   /\ closures' = [closures EXCEPT ![o].stdout = buffer]
                   /\ children' = fedMore
                   /\ host' \in {"up", "down"}
             [] OTHER ->
                   /\ closures' = [closures EXCEPT ![o].stdout = buffer]
                   /\ children' = fedMore
                   /\ UNCHANGED host
    /\ UNCHANGED <<sessionVars, framerVars, adapterVars, availVars>>

\* The deadline timer of call c fires.
ConcTimerFires(c) ==
    /\ host = "up"
    /\ LET o == Owner(c)
       IN  /\ closures[o].pc = "running"
           /\ closures[o].timeoutId = "armed"
           /\ closures' = [closures EXCEPT ![o] =
                 [FailUnlessResolved(@, TimeoutError(DefaultTimeout))
                     EXCEPT !.timeoutId = "fired"]]
           /\ children' = IF closures[o].resolved THEN children
                          ELSE [children EXCEPT ![o] = Killed(@)]
    /\ UNCHANGED host
    /\ UNCHANGED <<sessionVars, framerVars, adapterVars, availVars>>

\* The child of call c ends.
ConcProcExit(c, code) ==
    /\ host = "up"
    /\ children[c].proc = "running"
    /\ children' = [children EXCEPT ![c].proc = "exited", ![c].exitCode = code]
    /\ UNCHANGED <<closures, host>>
    /\ UNCHANGED <<sessionVars, framerVars, adapterVars, availVars>>

\* 'error' on the child of call c.
ConcProcError(c) ==
    /\ host = "up"
    /\ children[c].errorPending
    /\ children' = [children EXCEPT ![c].errorPending = FALSE]
    /\ closures' = [closures EXCEPT ![Owner(c)] =
          FailUnlessResolved(@, ProcessError(SpawnErrorMessage(children[c].exitCode)))]
    /\ UNCHANGED host
    /\ UNCHANGED <<sessionVars, framerVars, adapterVars, availVars>>

\* 'close' on the child of call c.
ConcProcClose(c) ==
    /\ host = "up"
    /\ children[c].proc \in {"exited", "failed"}
    /\ ~children[c].errorPending
    /\ ~children[c].closed
    /\ children[c].fed = Len(children[c].wire)
    /\ children' = [children EXCEPT ![c].closed = TRUE]
    /\ closures' = [closures EXCEPT ![Owner(c)] =
          FailUnlessResolved(@, ExitError(children[c].exitCode, <<>>))]
    /\ UNCHANGED host
    /\ UNCHANGED <<sessionVars, framerVars, adapterVars, availVars>>

\* The events of call c.
EventOf(c) ==
    \/ \E requestMethod \in RequestMethods : ConcStart(c, requestMethod)
    \/ \E units \in ConcurrentWrites : ConcServerWrite(c, units)
    \/ \E k \in 1..MaxConcWire : ConcStdoutData(c, k)
    \/ ConcTimerFires(c)
    \/ \E code \in {"0", "1"} : ConcProcExit(c, code)
    \/ ConcProcError(c)
    \/ ConcProcClose(c)

ConcurrentNext == \E c \in Calls : EventOf(c)

ConcurrentSpec == Init /\ [][ConcurrentNext]_vars

\* C24: an event of one call leaves the variables and the child of every
\* other call as they are; the buffer of a call holds what its own child
\* wrote.
SessionsIndependent ==
    [][\A c \in Calls :
          EventOf(c)
             => \A d \in Calls \ {c} :
                   /\ closures'[d] = closures[d]
                   /\ children'[d] = children[d]
                   /\ closures'[d].stdout
                         = SubSeq(children'[d].wire, 1, children'[d].fed)]_vars
InterleavedSessionsDiffer ==
    /\ closures["A"].requestMethod = "textDocument/completion"
    /\ closures["B"].requestMethod = "textDocument/hover"
    /\ closures["A"].outcome = Resolved(<<"R1">>)
    /\ closures["B"].outcome = Rejected(TimeoutError(DefaultTimeout))
    /\ closures["B"].stdout = Frame(Stringify(Notification))
    /\ children["A"].killed /\ children["B"].killed
    /\ children["A"].proc = "running" /\ children["B"].proc = "running"

====
